---- MODULE Spec2Model ----
(***************************************************************************)
(* Model of MichelleChung-code/HigherMathInvestigations:                   *)
(*   class_number.py : factors_of_n, get_class_number                      *)
(*   polynomial.py   : BasicPolynomial (sparse term map arithmetic)        *)
(* Two independent components; SpecCN drives the class number code and     *)
(* SpecPoly drives the polynomial code.                                    *)
(***************************************************************************)
EXTENDS Integers, Sequences, FiniteSets, TLC

VARIABLES pc, call, D, abs_b_max, b, count, ret, objs, last, out

cnvars == <<pc, call, D, abs_b_max, b, count, ret>>
polyvars == <<objs, last, out>>
vars == <<pc, call, D, abs_b_max, b, count, ret, objs, last, out>>

(***************************************************************************)
(* Bounds of the exploration.                                              *)
(***************************************************************************)
\* arguments of get_class_number are drawn from -MaxD..MaxD
MaxD == 50
\* arguments of a direct factors_of_n call are drawn from -MaxN..MaxN
MaxN == 40
\* at most MaxObjs polynomial objects are alive
MaxObjs == 3
\* literal term maps have exponents in -MaxExp..MaxExp,
\* coefficients in -MaxCoef..MaxCoef and at most MaxTerms entries
MaxExp == 1
MaxCoef == 1
MaxTerms == 2
\* int scalars are drawn from -1..MaxScalar, int powers from -1..MaxPow
MaxScalar == 2
MaxPow == 3

(***************************************************************************)
(* Outcomes of a call: a returned value or a raised exception.             *)
(***************************************************************************)
\* a returned int, list of pairs, bool, or exception object
IntValue(v) == [kind |-> "int", val |-> v]

ListValue(v) == [kind |-> "list", val |-> v]

BoolValue(v) == [kind |-> "bool", val |-> v]

ExceptionValue(e) == [kind |-> "exception", val |-> e]

Raise(e) == [kind |-> "raise", err |-> e]

NoCall == [fn |-> "none", arg |-> 0]

NoRet == [kind |-> "none"]

(***************************************************************************)
(* class_number.py                                                         *)
(***************************************************************************)
\* int(n ** 0.5) for an int n >= 0: the float square root, truncated.
\* (exact for the magnitudes explored here)
IntSqrt(n) == CHOOSE k \in 0..n : k * k <= n /\ (k + 1) * (k + 1) > n

\* int((D / 3) ** 0.5) for D >= 0: true division, float square root, truncation
IntSqrtThird(d) == CHOOSE k \in 0..d : 3 * k * k <= d /\ 3 * (k + 1) * (k + 1) > d

\* the loop `for i in range(2, int(n**0.5)+1)` of factors_of_n, from index i on
RECURSIVE FactorLoop(_, _, _, _)
FactorLoop(n, i, stop, ls_out) ==
    IF i >= stop THEN ls_out
    ELSE FactorLoop(n, i + 1, stop,
                    IF n % i = 0 THEN Append(ls_out, <<i, n \div i>>) ELSE ls_out)

\* a loop that stops one short: range(2, int(n**0.5))
FactorStopShort(n) == IntSqrt(n)

\* range(2, int(n**0.5)+1): the exclusive upper end of the loop
FactorStop(n) == IntSqrt(n) + 1

\* factors_of_n(n) for an int n (the isinstance assert holds for every int)
factors_of_n(n) ==
    IF ~(n > -1) THEN Raise("AssertionError")
    ELSE ListValue(FactorLoop(n, 2, FactorStop(n), << <<1, n>> >>))

\* a strict test: `fac_tup[0] > b and fac_tup[1] > b`
IsCountedStrict(fac_tup, bb) == fac_tup[1] > bb /\ fac_tup[2] > bb

\* the test `fac_tup[0] >= b and fac_tup[1] >= b`
IsCounted(fac_tup, bb) == fac_tup[1] >= bb /\ fac_tup[2] >= bb

\* the inner loop `for fac_tup in ls_fac`: the number of increments of count
RECURSIVE CountLoop(_, _, _)
CountLoop(ls_fac, bb, k) ==
    IF k > Len(ls_fac) THEN 0
    ELSE (IF IsCounted(ls_fac[k], bb) THEN 1 ELSE 0) + CountLoop(ls_fac, bb, k + 1)

CNInit ==
    /\ pc = "idle"
    /\ call = NoCall
    /\ D = 0
    /\ abs_b_max = 0
    /\ b = 0
    /\ count = 0
    /\ ret = NoRet
    /\ objs = << >>
    /\ last = NoCall
    /\ out = NoRet

\* a direct call factors_of_n(n), as in TestPrimes.cases
CallFactors ==
    /\ pc # "loop"
    /\ \E n \in -MaxN..MaxN :
        /\ call' = [fn |-> "factors_of_n", arg |-> n]
        /\ ret' = factors_of_n(n)
    /\ pc' = "done"
    /\ D' = 0
    /\ abs_b_max' = 0
    /\ b' = 0
    /\ count' = 0
    /\ UNCHANGED polyvars

\* get_class_number(D): lines 31-34, up to the head of the loop over b.
\* A negative D makes (D / 3) ** 0.5 a complex number and int() raises.
CallClassNumber ==
    /\ pc # "loop"
    /\ \E d \in -MaxD..MaxD :
        /\ call' = [fn |-> "get_class_number", arg |-> d]
        /\ D' = d
        /\ IF d < 0
           THEN /\ pc' = "done"
                /\ ret' = Raise("TypeError")
                /\ abs_b_max' = 0
           ELSE /\ pc' = "loop"
                /\ ret' = NoRet
                /\ abs_b_max' = IntSqrtThird(d)
    /\ b' = 0
    /\ count' = 0
    /\ UNCHANGED polyvars

\* one iteration of `for b in range(abs_b_max + 1)`
LoopBody ==
    /\ pc = "loop"
    /\ b <= abs_b_max
    /\ LET temp == b * b + D
           fac == factors_of_n(temp \div 4)
       IN  IF temp % 4 # 0
           THEN /\ b' = b + 1
                /\ UNCHANGED <<pc, count, ret>>
           ELSE IF fac.kind = "raise"
           THEN /\ pc' = "done"
                /\ ret' = fac
                /\ UNCHANGED <<b, count>>
           ELSE /\ count' = count + CountLoop(fac.val, b, 1)
                /\ b' = b + 1
                /\ UNCHANGED <<pc, ret>>
    /\ UNCHANGED <<call, D, abs_b_max>>
    /\ UNCHANGED polyvars

\* `return count` once the loop is exhausted
ReturnCount ==
    /\ pc = "loop"
    /\ b > abs_b_max
    /\ pc' = "done"
    /\ ret' = IntValue(count)
    /\ UNCHANGED <<call, D, abs_b_max, b, count>>
    /\ UNCHANGED polyvars

CNNext ==
    \/ CallFactors
    \/ CallClassNumber
    \/ LoopBody
    \/ ReturnCount

SpecCN == CNInit /\ [][CNNext]_vars

(***************************************************************************)
(* Properties of class_number.py, checked under SpecCN.                    *)
(***************************************************************************)
\* the triples (a, b, c) with 0 <= b, 3*b*b <= d, 4*a*c = b*b + d, b <= a <= c
\* (such a triple has a >= 1, hence c <= a*c <= d)
ReducedTriples(d) ==
    {t \in {bb \in 0..d : 3 * bb * bb <= d} \X (0..d) \X (0..d) :
        /\ 4 * t[2] * t[3] = t[1] * t[1] + d
        /\ t[1] <= t[2]
        /\ t[2] <= t[3]}

ClassNumberReturned ==
    pc = "done" /\ call.fn = "get_class_number"

FactorsReturned ==
    pc = "done" /\ call.fn = "factors_of_n"

\* the divisors d of n with d*d <= n
SmallDivisors(n) == {d \in 1..n : n % d = 0 /\ d * d <= n}

\* C2: for every n > 0, factors_of_n(n) is the list of the pairs (d, n/d) for
\* the divisors d of n with d*d <= n, in strictly ascending order of d and
\* starting with (1, n): nothing missing, nothing repeated, d1 <= d2.
C2_FactorPairs ==
    (FactorsReturned /\ call.arg > 0) =>
        /\ ret.kind = "list"
        /\ Len(ret.val) = Cardinality(SmallDivisors(call.arg))
        /\ ret.val[1] = <<1, call.arg>>
        /\ \A d \in SmallDivisors(call.arg) :
              \E k \in 1..Len(ret.val) : ret.val[k] = <<d, call.arg \div d>>
        /\ \A k \in 1..Len(ret.val) :
              /\ ret.val[k][1] * ret.val[k][2] = call.arg
              /\ ret.val[k][1] <= ret.val[k][2]
              /\ k < Len(ret.val) => ret.val[k][1] < ret.val[k + 1][1]

\* factors_of_n of a perfect square has returned, the root pair last
C2_Witness ==
    /\ FactorsReturned
    /\ call.arg = 36
    /\ ret.kind = "list"
    /\ Len(ret.val) = 5
    /\ ret.val[5] = <<6, 6>>

\* C9: factors_of_n(n) ends in a failure for n = 0 and for every negative n.
C9_RejectsNonPositive ==
    (FactorsReturned /\ call.arg <= 0) => ret.kind = "raise"

\* C10: get_class_number(D) ends in a failure for D = 0 and for every
\* negative D.
C10_RejectsNonPositive ==
    (ClassNumberReturned /\ call.arg <= 0) => ret.kind = "raise"

(***************************************************************************)
(* polynomial.py: dicts as functions with a finite domain of exponents.    *)
(***************************************************************************)
EmptyDict == [p \in {} |-> 0]

\* d.get(p, default)
Get(d, p, default) == IF p \in DOMAIN d THEN d[p] ELSE default

\* d[p] = c
Put(d, p, c) == [q \in DOMAIN d \cup {p} |-> IF q = p THEN c ELSE d[q]]

\* `int(c) if int(c) == c else c`; the coefficients modelled are ints
IntIfWhole(c) == c

\* a constructor that keeps the zero coefficients
BasicPolynomialUnpruned(dc_powers, v) ==
    [dc_powers |-> [p \in DOMAIN dc_powers |-> IntIfWhole(dc_powers[p])], v |-> v]

\* BasicPolynomial.__init__: the two dict comprehensions
BasicPolynomial(dc_powers, v) ==
    LET nonzero == [p \in {q \in DOMAIN dc_powers : dc_powers[q] # 0} |-> dc_powers[p]]
    IN  [dc_powers |-> [p \in DOMAIN nonzero |-> IntIfWhole(nonzero[p])], v |-> v]

\* The dicts an operator can reach: index k >= 1 is objs[k].dc_powers,
\* index 0 is the operator's local `dc`.
Store(heap) ==
    [k \in 0..Len(heap) |-> IF k = 0 THEN EmptyDict ELSE heap[k].dc_powers]

\* the objects as the store leaves them
Heap(heap, st) ==
    [k \in 1..Len(heap) |-> [dc_powers |-> st[k], v |-> heap[k].v]]

\* `dc = self.dc_powers` : the local names the operand's own dict
DictAlias(st, self) == [st |-> st, ref |-> self]

\* `dc = self.dc_powers.copy()` : the local names a fresh dict
DictCopy(st, self) == [st |-> [st EXCEPT ![0] = st[self]], ref |-> 0]

\* results of an operator: the objects afterwards and the outcome
Poly(k) == [kind |-> "poly", ref |-> k]

PolyArg(k) == [type |-> "poly", ref |-> k]

IntArg(k) == [type |-> "int", val |-> k]

FloatArg(n, d) == [type |-> "float", num |-> n, den |-> d]

StrArg == [type |-> "str"]

\* `dc.get(p, 0) + c`
AddTerm(cur, c) == cur + c

\* `for p, c in other.dc_powers.items(): dc[p] = dc.get(p, 0) + c`
RECURSIVE AddLoop(_, _, _, _)
AddLoop(st, ref, other, keys) ==
    IF keys = {} THEN st
    ELSE LET p == CHOOSE q \in keys : TRUE
             c == st[other][p]
         IN  AddLoop([st EXCEPT ![ref] = Put(st[ref], p, AddTerm(Get(st[ref], p, 0), c))],
                     ref, other, keys \ {p})

\* BasicPolynomial.__add__
add(heap, self, other) ==
    LET cp == DictCopy(Store(heap), self)
        st == AddLoop(cp.st, cp.ref, other, DOMAIN cp.st[other])
    IN  IF heap[self].v # heap[other].v
        THEN [objs |-> Heap(heap, st), out |-> Raise("Warning")]
        ELSE [objs |-> Append(Heap(heap, st), BasicPolynomial(st[cp.ref], heap[self].v)),
              out |-> Poly(Len(heap) + 1)]

\* `dc.get(p, 0) + c` where the code subtracts
SubTermPlus(cur, c) == cur + c

\* `dc.get(p, 0) - c`
SubTerm(cur, c) == cur - c

\* `for p, c in other.dc_powers.items(): dc[p] = dc.get(p, 0) - c`
RECURSIVE SubLoop(_, _, _, _)
SubLoop(st, ref, other, keys) ==
    IF keys = {} THEN st
    ELSE LET p == CHOOSE q \in keys : TRUE
             c == st[other][p]
         IN  SubLoop([st EXCEPT ![ref] = Put(st[ref], p, SubTerm(Get(st[ref], p, 0), c))],
                     ref, other, keys \ {p})

\* BasicPolynomial.__sub__
sub(heap, self, other) ==
    LET cp == DictCopy(Store(heap), self)
        st == SubLoop(cp.st, cp.ref, other, DOMAIN cp.st[other])
    IN  IF heap[self].v # heap[other].v
        THEN [objs |-> Heap(heap, st), out |-> Raise("Warning")]
        ELSE [objs |-> Append(Heap(heap, st), BasicPolynomial(st[cp.ref], heap[self].v)),
              out |-> Poly(Len(heap) + 1)]

\* `dc[p] = c` : the product term overwrites what the map holds
MulTermOverwrite(c1, c2, cur) == c1 * c2

\* `c = c1*c2; dc[p] = c + dc.get(p, 0)`
MulTerm(c1, c2, cur) == c1 * c2 + cur

\* the nested loops of __mul__ over the items of self and of other
RECURSIVE MulLoop(_, _, _, _)
MulLoop(dc, d1, d2, pairs) ==
    IF pairs = {} THEN dc
    ELSE LET pr == CHOOSE q \in pairs : TRUE
             p == pr[1] + pr[2]
         IN  MulLoop(Put(dc, p, MulTerm(d1[pr[1]], d2[pr[2]], Get(dc, p, 0))),
                     d1, d2, pairs \ {pr})

\* BasicPolynomial.__mul__ (and __rmul__, the same function)
mul(heap, self, other) ==
    IF other.type = "poly"
    THEN LET d1 == heap[self].dc_powers
             d2 == heap[other.ref].dc_powers
             dc == MulLoop(EmptyDict, d1, d2, (DOMAIN d1) \X (DOMAIN d2))
         IN  IF heap[self].v # heap[other.ref].v
             THEN [objs |-> heap, out |-> Raise("Warning")]
             ELSE [objs |-> Append(heap, BasicPolynomial(dc, heap[self].v)),
                   out |-> Poly(Len(heap) + 1)]
    ELSE IF other.type = "int"
    THEN LET d1 == heap[self].dc_powers
             dc == [p \in DOMAIN d1 |-> d1[p] * other.val]
         IN  [objs |-> Append(heap, BasicPolynomial(dc, heap[self].v)),
              out |-> Poly(Len(heap) + 1)]
    ELSE [objs |-> heap, out |-> Raise("NotImplementedError")]

\* `for i in range(power-1): ans *= self` ; there is no __imul__, so each
\* round is ans = ans.__mul__(self)
RECURSIVE PowLoop(_, _, _, _)
PowLoop(heap, ans, self, rounds) ==
    IF rounds = 0 THEN [objs |-> heap, out |-> Poly(ans)]
    ELSE LET r == mul(heap, ans, PolyArg(self))
         IN  PowLoop(r.objs, r.out.ref, self, rounds - 1)

\* `return NotImplementedError('Negative power')` : an exception object is
\* handed back as the value of the call
NegativePower == ExceptionValue("NotImplementedError('Negative power')")

\* BasicPolynomial.__pow__ ; the intermediate products of the loop are
\* dropped when the call returns
pow(heap, self, power) ==
    IF power.type # "int" THEN [objs |-> heap, out |-> Raise("NotImplementedError")]
    ELSE IF power.val = 0 THEN [objs |-> heap, out |-> IntValue(1)]
    ELSE IF power.val < 0 THEN [objs |-> heap, out |-> NegativePower]
    ELSE IF power.val = 1 THEN [objs |-> heap, out |-> Poly(self)]
    ELSE LET r == PowLoop(heap, self, self, power.val - 1)
             n == Len(heap)
         IN  [objs |-> Append(SubSeq(r.objs, 1, n), r.objs[r.out.ref]),
              out |-> Poly(n + 1)]

\* BasicPolynomial.is_constant
is_constant(dc_powers) == Cardinality((DOMAIN dc_powers) \ {0}) = 0

\* the exponent looked up when comparing with a number: `self.dc_powers.get(1, 0)`
EqKey == 1

\* BasicPolynomial.__eq__
eq(heap, self, other) ==
    IF is_constant(heap[self].dc_powers) /\ other.type \in {"int", "float"}
    THEN BoolValue(Get(heap[self].dc_powers, EqKey, 0) = other.val)
    ELSE IF other.type = "poly"
    THEN BoolValue(heap[self].dc_powers = heap[other.ref].dc_powers)
    ELSE Raise("AttributeError")

(***************************************************************************)
(* The inputs.                                                             *)
(***************************************************************************)
Exps == -MaxExp..MaxExp

Coefs == -MaxCoef..MaxCoef

Labels == {"x", "y"}

\* the literal term maps, zero coefficients included
RawDicts ==
    UNION {[S -> Coefs] : S \in {T \in SUBSET Exps : Cardinality(T) <= MaxTerms}}

Scalars == {IntArg(k) : k \in -1..MaxScalar}

Powers == {IntArg(k) : k \in -1..MaxPow} \cup {FloatArg(1, 2), FloatArg(-1, 2)}

Refs == 1..Len(objs)

PolyInit ==
    /\ objs = << >>
    /\ last = NoCall
    /\ out = NoRet
    /\ pc = "idle"
    /\ call = NoCall
    /\ D = 0
    /\ abs_b_max = 0
    /\ b = 0
    /\ count = 0
    /\ ret = NoRet

\* p = BasicPolynomial(dc_powers, v)
Construct ==
    /\ Len(objs) < MaxObjs
    /\ \E dc \in RawDicts, v \in Labels :
        /\ objs' = Append(objs, BasicPolynomial(dc, v))
        /\ last' = [fn |-> "__init__", self |-> Len(objs) + 1, other |-> StrArg]
        /\ out' = Poly(Len(objs) + 1)
    /\ UNCHANGED cnvars

\* objs[i] + objs[j]
Add ==
    /\ Len(objs) < MaxObjs
    /\ \E i \in Refs, j \in Refs :
        LET r == add(objs, i, j)
        IN  /\ objs' = r.objs
            /\ out' = r.out
            /\ last' = [fn |-> "__add__", self |-> i, other |-> PolyArg(j)]
    /\ UNCHANGED cnvars

\* objs[i] - objs[j]
Sub ==
    /\ Len(objs) < MaxObjs
    /\ \E i \in Refs, j \in Refs :
        LET r == sub(objs, i, j)
        IN  /\ objs' = r.objs
            /\ out' = r.out
            /\ last' = [fn |-> "__sub__", self |-> i, other |-> PolyArg(j)]
    /\ UNCHANGED cnvars

\* objs[i] * other, other * objs[i]
Mul ==
    /\ Len(objs) < MaxObjs
    /\ \E i \in Refs, other \in {PolyArg(j) : j \in Refs} \cup Scalars \cup {StrArg} :
        LET r == mul(objs, i, other)
        IN  /\ objs' = r.objs
            /\ out' = r.out
            /\ last' = [fn |-> "__mul__", self |-> i, other |-> other]
    /\ UNCHANGED cnvars

\* objs[i] ** power
Pow ==
    /\ Len(objs) < MaxObjs
    /\ \E i \in Refs, power \in Powers :
        LET r == pow(objs, i, power)
        IN  /\ objs' = r.objs
            /\ out' = r.out
            /\ last' = [fn |-> "__pow__", self |-> i, other |-> power]
    /\ UNCHANGED cnvars

\* objs[i] == other
Eq ==
    /\ Len(objs) < MaxObjs
    /\ \E i \in Refs, other \in {PolyArg(j) : j \in Refs} \cup Scalars :
        /\ out' = eq(objs, i, other)
        /\ last' = [fn |-> "__eq__", self |-> i, other |-> other]
    /\ UNCHANGED objs
    /\ UNCHANGED cnvars

PolyNext ==
    \/ Construct
    \/ Add
    \/ Sub
    \/ Mul
    \/ Pow
    \/ Eq

SpecPoly == PolyInit /\ [][PolyNext]_vars

(***************************************************************************)
(* Properties of polynomial.py, checked under SpecPoly.                    *)
(***************************************************************************)
\* C3: a polynomial with no exponent other than 0 compares equal to a bare
\* number v exactly when v is its coefficient at exponent 0 (0 when absent).
C3_ConstantEqualsNumber ==
    (/\ last.fn = "__eq__"
     /\ last.other.type = "int"
     /\ (DOMAIN objs[last.self].dc_powers) \subseteq {0}) =>
        out = BoolValue(last.other.val = Get(objs[last.self].dc_powers, 0, 0))

\* the last call was P - Q with Q the same polynomial as P
SubtractedFromItself ==
    /\ last.fn = "__sub__"
    /\ objs[last.self] = objs[last.other.ref]

\* C4: for any polynomial P, the result of P - P has an empty term map and
\* compares equal to the number 0.
C4_SelfSubtractionIsZero ==
    SubtractedFromItself =>
        /\ out.kind = "poly"
        /\ objs[out.ref].dc_powers = EmptyDict
        /\ eq(objs, out.ref, IntArg(0)) = BoolValue(TRUE)

\* P - P has been computed for a P of two terms, one at a negative exponent
C4_Witness ==
    /\ SubtractedFromItself
    /\ Cardinality(DOMAIN objs[last.self].dc_powers) = 2
    /\ -1 \in DOMAIN objs[last.self].dc_powers
    /\ out.kind = "poly"
    /\ objs[out.ref].dc_powers = EmptyDict

\* C5: the term map of every polynomial, constructed or computed by any
\* sequence of +, -, *, scalar * and ** (>= 1), holds no zero coefficient.
C5_NoZeroCoefficient ==
    \A k \in Refs : \A p \in DOMAIN objs[k].dc_powers : objs[k].dc_powers[p] # 0

\* a polynomial with terms has been multiplied by the scalar 0
C5_Witness ==
    /\ last.fn = "__mul__"
    /\ last.other = IntArg(0)
    /\ objs[last.self].dc_powers # EmptyDict
    /\ out.kind = "poly"
    /\ objs[out.ref].dc_powers = EmptyDict

\* C6: no arithmetic operation changes an existing polynomial: every object
\* keeps its term map and its label across every step, failing calls included.
C6_OperandsUnchanged ==
    [][\A k \in 1..Len(objs) : Len(objs') >= k /\ objs'[k] = objs[k]]_vars

\* an addition of two polynomials with terms has failed on the labels
C6_Witness ==
    /\ last.fn = "__add__"
    /\ out = Raise("Warning")
    /\ objs[last.self].dc_powers # EmptyDict
    /\ objs[last.other.ref].dc_powers # EmptyDict

\* the term map of objs[i] * (objs[j] + objs[k])
ProductOfSum(i, j, k) ==
    LET qr == add(objs, j, k)
        pqr == mul(qr.objs, i, PolyArg(qr.out.ref))
    IN  pqr.objs[pqr.out.ref].dc_powers

\* the term map of objs[i] * objs[j] + objs[i] * objs[k]
SumOfProducts(i, j, k) ==
    LET pq == mul(objs, i, PolyArg(j))
        pr == mul(pq.objs, i, PolyArg(k))
        s == add(pr.objs, pq.out.ref, pr.out.ref)
    IN  s.objs[s.out.ref].dc_powers

\* the term map of the convolution of objs[i] and objs[j]
Convolution(i, j) ==
    LET d1 == objs[i].dc_powers
        d2 == objs[j].dc_powers
        sums == {p1 + p2 : <<p1, p2>> \in (DOMAIN d1) \X (DOMAIN d2)}
        coef(p) == LET hit == {p1 \in DOMAIN d1 : p - p1 \in DOMAIN d2}
                       term[S \in SUBSET hit] ==
                           IF S = {} THEN 0
                           ELSE LET p1 == CHOOSE q \in S : TRUE
                                IN  d1[p1] * d2[p - p1] + term[S \ {p1}]
                   IN  term[hit]
    IN  [p \in {q \in sums : coef(q) # 0} |-> coef(p)]

\* C7: multiplication is the convolution of the term maps and distributes
\* over addition: P * (Q + R) and P * Q + P * R have the same term map, for
\* all P, Q, R of one label.
C7_Distributes ==
    \A i \in Refs, j \in Refs, k \in Refs :
        (objs[i].v = objs[j].v /\ objs[j].v = objs[k].v) =>
            /\ ProductOfSum(i, j, k) = SumOfProducts(i, j, k)
            /\ LET pq == mul(objs, i, PolyArg(j))
               IN  pq.objs[pq.out.ref].dc_powers = Convolution(i, j)

\* three polynomials of one label: a term cancels in Q + R and in P * Q
C7_Witness ==
    /\ Len(objs) = 3
    /\ objs[1].v = objs[2].v
    /\ objs[2].v = objs[3].v
    /\ objs[1].dc_powers = Put(Put(EmptyDict, 0, 1), 1, 1)
    /\ objs[2].dc_powers = Put(Put(EmptyDict, 0, -1), 1, 1)
    /\ objs[3].dc_powers = Put(Put(EmptyDict, -1, 1), 0, 1)
    /\ DOMAIN ProductOfSum(1, 2, 3) = {-1, 0, 1, 2}
    /\ DOMAIN Convolution(1, 2) = {0, 2}

\* C8: P ** n fails with an error, and yields no value, for every negative
\* integer n and every non-integer n.
C8_BadPowerRaises ==
    (/\ last.fn = "__pow__"
     /\ (last.other.type = "float" \/ last.other.val < 0)) =>
        out.kind = "raise"

====
